---- MODULE Spec2Model ----
(***************************************************************************)
(* Cooperative port allocation (utils/portalloc): port_alloc run by        *)
(* several callers against one shared directory.  The persisted table,    *)
(* the advisory lock, the clock and the ports taken by software outside   *)
(* the scheme are the shared state; every caller has its own in-memory    *)
(* table, candidate base port and program position.                       *)
(***************************************************************************)
EXTENDS Integers, FiniteSets, Sequences, TLC

\* ---------------------------------------------------------------- constants
LOW == 10000
HIGH == 32000
ALLOCATION_TIME_SECS == 120
U16 == 65536

\* ------------------------------------------------------------------- bounds
\* total number of port_alloc calls made in a behaviour
MaxCalls == 3
\* the clock stops advancing after MaxTicks ticks of TickSecs seconds
MaxTicks == 2
TickSecs == 120
\* wraps[p] stops counting at WrapCap
WrapCap == 2

\* the concurrent callers (processes sharing the directory)
Procs == {"p1", "p2"}
NoProc == "none"

\* range sizes the callers ask for (0 is the invalid argument)
RangeSizes == {0, HIGH - LOW, (HIGH - LOW) \div 2}
\* ports that software outside the scheme may hold: the last port of the
\* lower half of the window and the last port of the window
BusyCandidates == {LOW + ((HIGH - LOW) \div 2) - 1, HIGH}

VARIABLES
    pc,          \* pc[p]: position of caller p inside port_alloc
    range_size,  \* range_size[p]: the argument of p's current call
    data,        \* data[p]: the table p loaded and mutates in memory
    base_port,   \* base_port[p]: the candidate base of the current iteration
                 \* (parked at LOW while p is outside the locked body)
    result,      \* result[p]: what p's last call returned
    lock,        \* holder of the advisory lock, or NoProc
    file,        \* the persisted state file of the shared directory
    dir_exists,  \* whether the shared directory has been created
    now,         \* the clock, seconds
    in_use,      \* ports bound by software outside the scheme
    calls,       \* number of calls started
    wraps,       \* wraps[p]: wraparounds taken by p's current call
    bind_failed, \* bind_failed[p]: a bind probe failed in p's current call
    checked,     \* checked[p]: {base} once [base, base + range_size) passed
                 \* contains in the current iteration, else {}
    probed,      \* probed[p]: {base} once every port of the range was bound
                 \* in the current iteration, else {}
    granted,     \* history: ranges returned by successful calls whose lease
                 \* (commit time + ALLOCATION_TIME_SECS) is unexpired
    listeners,   \* listeners[p]: ports on which p holds an open TcpListener
    probe_port   \* probe_port[p]: the variable port of p's bind loop (parked at LOW
                 \* outside the loop)

vars == <<pc, range_size, data, base_port, result, lock, file, dir_exists, now,
          in_use, calls, wraps, bind_failed, checked, probed, granted,
          listeners, probe_port>>

\* ----------------------------------------------------------- u16 arithmetic
Add16(a, b) == (a + b) % U16

\* ------------------------------------------------------- allocation table
Entry(start, end, expires) == [start |-> start, end |-> end, expires |-> expires]

\* RootData::default(): no entries, cursor at LOW
DefaultTable == [next |-> LOW, entries |-> {}]

\* half-open ranges [s1, e1) and [s2, e2) share a port
Overlaps(s1, e1, s2, e2) == s1 < e2 /\ s2 < e1

\* the unexpired entries of table t that overlap [start, end)
Conflicts(t, start, end, ts) ==
    {e \in t.entries : ts < e.expires /\ Overlaps(e.start, e.end, start, end)}

\* contains: the hints it may report; the empty set stands for None
contains(t, start, end, ts) == {e.end : e \in Conflicts(t, start, end, ts)}

\* reclaim(now): entries with expiry <= now dropped, cursor reset to LOW
reclaim(t, ts) ==
    [next |-> LOW, entries |-> {e \in t.entries : ts < e.expires}]

\* insert(range, expires): adds the entry and advances the cursor to range.end
insert(t, start, end, expires) ==
    [next |-> end, entries |-> t.entries \cup {Entry(start, end, expires)}]

\* ------------------------------------------------------- persisted state
MissingFile == [kind |-> "missing", table |-> DefaultTable]
CorruptFile == [kind |-> "corrupt", table |-> DefaultTable]
StoredFile(t) == [kind |-> "ok", table |-> t]

\* load_data: a missing or corrupt file yields the default table
load_data(f, ts) == IF f.kind = "ok" THEN f.table ELSE DefaultTable

\* store_data: the table replaces the file's contents
store_data(t) == StoredFile(t)

\* ---------------------------------------------------------------- results
NoResult == [kind |-> "none"]
OkResult(port) == [kind |-> "ok", port |-> port]
ErrResult(why) == [kind |-> why]

Init ==
    /\ pc = [p \in Procs |-> "idle"]
    /\ range_size = [p \in Procs |-> 0]
    /\ data = [p \in Procs |-> DefaultTable]
    /\ base_port = [p \in Procs |-> LOW]
    /\ result = [p \in Procs |-> NoResult]
    /\ lock = NoProc
    /\ file \in {MissingFile, CorruptFile}
    /\ dir_exists = FALSE
    /\ now = 0
    /\ in_use = {}
    /\ calls = 0
    /\ wraps = [p \in Procs |-> 0]
    /\ bind_failed = [p \in Procs |-> FALSE]
    /\ checked = [p \in Procs |-> {}]
    /\ probed = [p \in Procs |-> {}]
    /\ granted = {}
    /\ listeners = [p \in Procs |-> {}]
    /\ probe_port = [p \in Procs |-> LOW]

\* ------------------------------------------------------------ port_alloc
Min(S) == CHOOSE x \in S : \A y \in S : x <= y

RangeEnd(p) == Add16(base_port[p], range_size[p])

\* if range_size == 0 { bail!(..) }
InvalidArgumentNever(n) == FALSE
InvalidArgument(n) == n = 0

\* entry of port_alloc: the range_size check
PortAlloc(p) ==
    /\ pc[p] \in {"idle", "done"}
    /\ calls < MaxCalls
    /\ calls' = calls + 1
    /\ \E n \in RangeSizes :
        /\ range_size' = [range_size EXCEPT ![p] = n]
        /\ IF InvalidArgument(n)
           THEN /\ pc' = [pc EXCEPT ![p] = "done"]
                /\ result' = [result EXCEPT ![p] = ErrResult("invalid_argument")]
           ELSE /\ pc' = [pc EXCEPT ![p] = "new_dir"]
                /\ result' = [result EXCEPT ![p] = NoResult]
    /\ UNCHANGED <<listeners, probe_port, data, base_port, lock, file, dir_exists, now, in_use, wraps,
                   bind_failed, checked, probed, granted>>

\* DataDir::new(data_dir()?)?: resolve the shared directory and create it
NewDataDir(p) ==
    /\ pc[p] = "new_dir"
    /\ \E outcome \in {"ok", "config_error", "io_error"} :
        IF outcome = "ok"
        THEN /\ dir_exists' = TRUE
             /\ pc' = [pc EXCEPT ![p] = "with_lock"]
             /\ UNCHANGED result
        ELSE /\ pc' = [pc EXCEPT ![p] = "done"]
             /\ result' = [result EXCEPT ![p] = ErrResult(outcome)]
             /\ UNCHANGED dir_exists
    /\ UNCHANGED <<listeners, probe_port, range_size, data, base_port, lock, file, now, in_use, calls,
                   wraps, bind_failed, checked, probed, granted>>

\* the body entered without the lock being taken
WithoutLock(p) ==
    /\ pc[p] = "with_lock"
    /\ pc' = [pc EXCEPT ![p] = "load"]
    /\ UNCHANGED <<listeners, probe_port, range_size, data, base_port, result, lock, file, dir_exists,
                   now, in_use, calls, wraps, bind_failed, checked, probed,
                   granted>>

\* with_lock: blocks until the exclusive lock is free, then takes it
LockAcquire(p) ==
    /\ lock = NoProc
    /\ lock' = p
    /\ pc' = [pc EXCEPT ![p] = "load"]
    /\ UNCHANGED result

\* with_lock: taking the lock fails with an I/O error
LockFail(p) ==
    /\ pc' = [pc EXCEPT ![p] = "done"]
    /\ result' = [result EXCEPT ![p] = ErrResult("io_error")]
    /\ UNCHANGED lock

\* data_dir.with_lock(|data_dir| ...): enter the locked body
WithLock(p) ==
    /\ pc[p] = "with_lock"
    /\ (LockAcquire(p) \/ LockFail(p))
    /\ UNCHANGED <<listeners, probe_port, range_size, data, base_port, file, dir_exists, now, in_use,
                   calls, wraps, bind_failed, checked, probed, granted>>

\* let mut base_port: u16 = data.next;
StartBaseSkipsOne(t) == Add16(t.next, 1)
StartBase(t) == t.next

\* let mut data = data_dir.load_data(now_ts())?; let mut base_port = data.next;
Load(p) ==
    /\ pc[p] = "load"
    /\ \/ /\ data' = [data EXCEPT ![p] = load_data(file, now)]
          /\ base_port' = [base_port EXCEPT ![p] = StartBase(load_data(file, now))]
          /\ pc' = [pc EXCEPT ![p] = "check"]
          /\ UNCHANGED result
       \/ /\ pc' = [pc EXCEPT ![p] = "ret"]
          /\ result' = [result EXCEPT ![p] = ErrResult("io_error")]
          /\ UNCHANGED <<data, base_port>>
    /\ UNCHANGED <<listeners, probe_port, range_size, lock, file, dir_exists, now, in_use, calls,
                   wraps, bind_failed, checked, probed, granted>>

\* if HIGH < base_port
NeedsWrapLate(p) == HIGH + 1 < base_port[p]
NeedsWrapNever(p) == FALSE
NeedsWrap(p) == HIGH < base_port[p]

\* data = data.reclaim(now_ts()), done in the wraparound step only
ReclaimedAlways(p) == reclaim(data[p], now)
Reclaimed(p) == IF NeedsWrap(p) THEN reclaim(data[p], now) ELSE data[p]

\* base_port = LOW, done in the wraparound step only
ScanBaseNoReset(p) == base_port[p]
ScanBase(p) == IF NeedsWrap(p) THEN LOW ELSE base_port[p]

\* data.contains(base_port..base_port + range_size) on the table d
ConflictHintsNone(p, d, b) == {}
ConflictHintsOfExpired(p, d, b) ==
    {e.end : e \in {x \in d.entries :
                 Overlaps(x.start, x.end, b, Add16(b, range_size[p]))}}
ConflictHints(p, d, b) == contains(d, b, Add16(b, range_size[p]), now)

\* head of the retry loop: wraparound, then the conflict check
Check(p) ==
    /\ pc[p] = "check"
    /\ LET d == Reclaimed(p)
           b == ScanBase(p)
           hints == ConflictHints(p, d, b)
       IN /\ data' = [data EXCEPT ![p] = d]
          /\ wraps' = [wraps EXCEPT ![p] =
                          IF NeedsWrap(p) /\ @ < WrapCap THEN @ + 1 ELSE @]
          /\ IF hints = {}
             THEN /\ base_port' = [base_port EXCEPT ![p] = b]
                  /\ checked' = [checked EXCEPT ![p] = {b}]
                  /\ pc' = [pc EXCEPT ![p] = "probe"]
             ELSE /\ \E next_port \in hints :
                        base_port' = [base_port EXCEPT ![p] = next_port]
                  /\ checked' = [checked EXCEPT ![p] = {}]
                  /\ pc' = [pc EXCEPT ![p] = "check"]
    /\ probed' = [probed EXCEPT ![p] = {}]
    /\ UNCHANGED <<listeners, probe_port, range_size, result, lock, file, dir_exists, now, in_use,
                   calls, bind_failed, granted>>

\* the ports of p's range on which TcpListener::bind fails
UnbindableNone(p) == {}
Unbindable(p) == {port \in in_use : base_port[p] <= port /\ port < RangeEnd(p)}

\* base_port = port + 1, after the bind of port has failed
AfterFailedBindSame(q) == q
AfterFailedBindSkips(q) == Add16(q, 2)
AfterFailedBind(q) == Add16(q, 1)

\* a probe loop that gives the call up when a bind fails
ProbeBailsOnBindError(p) ==
    /\ pc[p] = "probe"
    /\ IF Unbindable(p) = {}
       THEN /\ probed' = [probed EXCEPT ![p] = {base_port[p]}]
            /\ pc' = [pc EXCEPT ![p] = "commit"]
            /\ UNCHANGED <<base_port, bind_failed, checked, result>>
       ELSE /\ bind_failed' = [bind_failed EXCEPT ![p] = TRUE]
            /\ result' = [result EXCEPT ![p] = ErrResult("io_error")]
            /\ pc' = [pc EXCEPT ![p] = "ret"]
            /\ UNCHANGED <<base_port, checked, probed>>
    /\ UNCHANGED <<listeners, probe_port, range_size, data, lock, file, dir_exists, now, in_use,
                   calls, wraps, granted>>

\* for port in range { match TcpListener::bind(("127.0.0.1", port)) ... }
Probe(p) ==
    /\ pc[p] = "probe"
    /\ IF Unbindable(p) = {}
       THEN /\ probed' = [probed EXCEPT ![p] = {base_port[p]}]
            /\ pc' = [pc EXCEPT ![p] = "commit"]
            /\ UNCHANGED <<base_port, bind_failed, checked>>
       ELSE /\ base_port' = [base_port EXCEPT ![p] =
                                AfterFailedBind(Min(Unbindable(p)))]
            /\ bind_failed' = [bind_failed EXCEPT ![p] = TRUE]
            /\ checked' = [checked EXCEPT ![p] = {}]
            /\ pc' = [pc EXCEPT ![p] = "check"]
            /\ UNCHANGED probed
    /\ UNCHANGED <<listeners, probe_port, range_size, data, result, lock, file, dir_exists, now,
                   in_use, calls, wraps, granted>>

\* ------------------------------------------- the bind loop, port by port
\* The ports outside BusyCandidates are never held by anybody else: their
\* binds succeed and their listeners are dropped at once, so a run of them
\* is passed within the step that binds the next port of interest.
\* pc[p] = "probe": about to start the loop; "probing": about to bind
\* probe_port[p]; "bound": holding the listener of probe_port[p].

\* the port the loop binds next that may fail, or the last port of the range
NextProbe(p) ==
    LET from == IF pc[p] = "probe" THEN base_port[p] ELSE probe_port[p]
    IN Min({q \in BusyCandidates : from <= q /\ q < RangeEnd(p)}
              \cup {RangeEnd(p) - 1})

\* TcpListener::bind(("127.0.0.1", port)): Err => { base_port = port + 1;
\* continue 'retry }, Ok(l) => l
ProbeBind(p) ==
    /\ pc[p] \in {"probe", "probing"}
    /\ LET q == NextProbe(p)
       IN IF q \in in_use
          THEN /\ base_port' = [base_port EXCEPT ![p] = AfterFailedBind(q)]
               /\ bind_failed' = [bind_failed EXCEPT ![p] = TRUE]
               /\ checked' = [checked EXCEPT ![p] = {}]
               /\ probe_port' = [probe_port EXCEPT ![p] = LOW]
               /\ pc' = [pc EXCEPT ![p] = "check"]
               /\ UNCHANGED listeners
          ELSE /\ listeners' = [listeners EXCEPT ![p] = @ \cup {q}]
               /\ probe_port' = [probe_port EXCEPT ![p] = q]
               /\ pc' = [pc EXCEPT ![p] = "bound"]
               /\ UNCHANGED <<base_port, bind_failed, checked>>
    /\ UNCHANGED <<range_size, data, result, lock, file, dir_exists, now,
                   in_use, calls, wraps, probed, granted>>

\* the listener bound in this iteration is a temporary of the match
\* statement: it is dropped when the statement ends
StillListening(p) == listeners[p]
AfterDrop(p) == listeners[p] \ {probe_port[p]}

\* end of one iteration of the bind loop: the listener is dropped, then the
\* loop goes to the next port or ends
ProbeDrop(p) ==
    /\ pc[p] = "bound"
    /\ listeners' = [listeners EXCEPT ![p] = AfterDrop(p)]
    /\ IF Add16(probe_port[p], 1) = RangeEnd(p)
       THEN /\ probed' = [probed EXCEPT ![p] = {base_port[p]}]
            /\ probe_port' = [probe_port EXCEPT ![p] = LOW]
            /\ pc' = [pc EXCEPT ![p] = "commit"]
       ELSE /\ probe_port' = [probe_port EXCEPT ![p] = Add16(@, 1)]
            /\ pc' = [pc EXCEPT ![p] = "probing"]
            /\ UNCHANGED probed
    /\ UNCHANGED <<range_size, data, base_port, result, lock, file, dir_exists,
                   now, in_use, calls, wraps, bind_failed, checked, granted>>

\* the table after data.insert(range, now_ts() + ALLOCATION_TIME_SECS)
InsertedNoLease(p) == insert(data[p], base_port[p], RangeEnd(p), now)
Inserted(p) ==
    insert(data[p], base_port[p], RangeEnd(p), now + ALLOCATION_TIME_SECS)

\* data_dir.store_data(&data)?, after the insert
StoredBeforeInsert(p) == store_data(data[p])
Stored(p) == store_data(Inserted(p))

\* data.insert(..); data_dir.store_data(&data)?; break base_port
Commit(p) ==
    /\ pc[p] = "commit"
    /\ data' = [data EXCEPT ![p] = Inserted(p)]
    /\ \/ /\ file' = Stored(p)
          /\ result' = [result EXCEPT ![p] = OkResult(base_port[p])]
          /\ granted' = granted \cup
                {Entry(base_port[p], RangeEnd(p), now + ALLOCATION_TIME_SECS)}
       \/ /\ result' = [result EXCEPT ![p] = ErrResult("io_error")]
          /\ UNCHANGED <<file, granted>>
    /\ pc' = [pc EXCEPT ![p] = "ret"]
    /\ UNCHANGED <<listeners, probe_port, range_size, base_port, lock, dir_exists, now, in_use, calls,
                   wraps, bind_failed, checked, probed>>

\* the guard dropped on every exit path of the body
LockReleaseOnSuccess(p) ==
    lock' = IF lock = p /\ result[p].kind = "ok" THEN NoProc ELSE lock
LockRelease(p) == lock' = IF lock = p THEN NoProc ELSE lock

\* end of with_lock: the guard is dropped and the body's result returned;
\* the locals of the call (data, base_port) die with it
Release(p) ==
    /\ pc[p] = "ret"
    /\ LockRelease(p)
    /\ pc' = [pc EXCEPT ![p] = "done"]
    /\ data' = [data EXCEPT ![p] = DefaultTable]
    /\ base_port' = [base_port EXCEPT ![p] = LOW]
    /\ wraps' = [wraps EXCEPT ![p] = 0]
    /\ bind_failed' = [bind_failed EXCEPT ![p] = FALSE]
    /\ checked' = [checked EXCEPT ![p] = {}]
    /\ probed' = [probed EXCEPT ![p] = {}]
    /\ UNCHANGED <<listeners, probe_port, range_size, result, file, dir_exists, now, in_use, calls,
                   granted>>

\* ----------------------------------------------------------- environment
\* now_ts(): the clock advances
Tick ==
    /\ now < MaxTicks * TickSecs
    /\ now' = now + TickSecs
    /\ granted' = {g \in granted : now' < g.expires}
    /\ UNCHANGED <<listeners, probe_port, pc, range_size, data, base_port, result, lock, file,
                   dir_exists, in_use, calls, wraps, bind_failed, checked,
                   probed>>

\* software outside the scheme binds a port
OutsideBind(port) ==
    /\ port \notin in_use
    /\ \A p \in Procs : port \notin listeners[p]
    /\ in_use' = in_use \cup {port}
    /\ UNCHANGED <<listeners, probe_port, pc, range_size, data, base_port, result, lock, file,
                   dir_exists, now, calls, wraps, bind_failed, checked,
                   probed, granted>>

\* software outside the scheme closes a port
OutsideClose(port) ==
    /\ port \in in_use
    /\ in_use' = in_use \ {port}
    /\ UNCHANGED <<listeners, probe_port, pc, range_size, data, base_port, result, lock, file,
                   dir_exists, now, calls, wraps, bind_failed, checked,
                   probed, granted>>

Next ==
    \/ \E p \in Procs : PortAlloc(p)
    \/ \E p \in Procs : NewDataDir(p)
    \/ \E p \in Procs : WithLock(p)
    \/ \E p \in Procs : Load(p)
    \/ \E p \in Procs : Check(p)
    \/ \E p \in Procs : Probe(p)
    \/ \E p \in Procs : Commit(p)
    \/ \E p \in Procs : Release(p)
    \/ Tick
    \/ \E port \in BusyCandidates : OutsideBind(port)
    \/ \E port \in BusyCandidates : OutsideClose(port)

Spec == Init /\ [][Next]_vars

\* the same callers with the bind loop taken port by port
ProbeNext ==
    \/ \E p \in Procs : PortAlloc(p)
    \/ \E p \in Procs : NewDataDir(p)
    \/ \E p \in Procs : WithLock(p)
    \/ \E p \in Procs : Load(p)
    \/ \E p \in Procs : Check(p)
    \/ \E p \in Procs : ProbeBind(p)
    \/ \E p \in Procs : ProbeDrop(p)
    \/ \E p \in Procs : Commit(p)
    \/ \E p \in Procs : Release(p)
    \/ Tick
    \/ \E port \in BusyCandidates : OutsideBind(port)
    \/ \E port \in BusyCandidates : OutsideClose(port)

ProbeSpec == Init /\ [][ProbeNext]_vars

\* the callers in surroundings that hold still while a call is in the locked
\* body: the clock and the ports held by others change between calls only
QuietNext ==
    \/ \E p \in Procs : PortAlloc(p)
    \/ \E p \in Procs : NewDataDir(p)
    \/ \E p \in Procs : WithLock(p)
    \/ \E p \in Procs : Load(p)
    \/ \E p \in Procs : Check(p)
    \/ \E p \in Procs : Probe(p)
    \/ \E p \in Procs : Commit(p)
    \/ \E p \in Procs : Release(p)
    \/ (lock = NoProc /\ Tick)
    \/ \E port \in BusyCandidates : (lock = NoProc /\ OutsideBind(port))
    \/ \E port \in BusyCandidates : (lock = NoProc /\ OutsideClose(port))

\* a caller inside the loop keeps running
QuietSpec ==
    /\ Init
    /\ [][QuietNext]_vars
    /\ \A p \in Procs : WF_vars(Check(p) \/ Probe(p) \/ Commit(p))

\* ------------------------------------------------------------ properties
\* the table a call would load from the shared directory now
Persisted == load_data(file, now)

\* the callers inside the locked body
InBody(p) == pc[p] \in {"load", "check", "probe", "commit", "ret"}

\* an entry lies inside the managed window [LOW, HIGH]
InWindow(e) == LOW <= e.start /\ e.end - 1 <= HIGH

\* C1: the unexpired entries of the persisted table are pairwise
\* non-overlapping, and so are the ranges returned by successful calls whose
\* leases (commit time + 120 s) are both unexpired, in every interleaving of
\* the callers.
C1_ActiveRangesDisjoint ==
    /\ \A e1, e2 \in Persisted.entries :
          (e1 # e2 /\ now < e1.expires /\ now < e2.expires)
              => ~Overlaps(e1.start, e1.end, e2.start, e2.end)
    /\ \A g1, g2 \in granted :
          g1 # g2 => ~Overlaps(g1.start, g1.end, g2.start, g2.end)

\* two returned ranges with unexpired leases coexist, handed to different
\* callers or to the same caller in sequence
C1_Witness ==
    /\ Cardinality(granted) >= 2
    /\ Cardinality({e \in Persisted.entries : now < e.expires}) >= 2

\* C2: every successful call returns a base with LOW <= base and
\* base + range_size - 1 <= HIGH, so every entry ever stored lies inside
\* the managed window.
C2_RangesInsideWindow ==
    /\ \A e \in Persisted.entries : InWindow(e)
    /\ \A p \in Procs :
          (pc[p] = "ret" /\ result[p].kind = "ok")
              => /\ LOW <= result[p].port
                 /\ result[p].port + range_size[p] - 1 <= HIGH

\* C3: whoever is inside the locked body (load, conflict check, bind probe,
\* insert, store) holds the lock, at most one caller is inside it, the file
\* changes only in the store of the lock holder, and the table a caller
\* works on is the persisted one less what it reclaimed: nobody stored
\* between its load and its store.
C3_BodyState ==
    /\ \A p \in Procs : InBody(p) => lock = p
    /\ Cardinality({p \in Procs : InBody(p)}) <= 1
    /\ \A p \in Procs :
          pc[p] \in {"check", "probe", "commit"}
              => /\ data[p].entries \subseteq Persisted.entries
                 /\ \A e \in Persisted.entries \ data[p].entries :
                        e.expires <= now

C3_BodyStep ==
    /\ file' # file => \E p \in Procs : lock = p /\ pc[p] = "commit"
    /\ \A p \in Procs :
          (pc[p] = "load" /\ pc'[p] = "check")
              => /\ lock = p
                 /\ data'[p] = Persisted
                 /\ \A q \in Procs \ {p} : ~InBody(q)

\* C3: the lock serializes whole allocations (the state and the step part)
C3_LockSerializes == [](C3_BodyState) /\ [][C3_BodyStep]_vars

\* one caller is in the middle of its scan while another waits for the lock
C3_Witness ==
    \E p, q \in Procs :
        /\ pc[p] \in {"check", "probe", "commit"}
        /\ pc[q] = "with_lock"
        /\ Persisted.entries # {}

C5_ZeroState ==
    \A p \in Procs :
        (pc[p] # "idle" /\ range_size[p] = 0)
            => /\ pc[p] = "done"
               /\ result[p] = ErrResult("invalid_argument")
               /\ lock # p

C5_ZeroStep ==
    (dir_exists' # dir_exists \/ lock' # lock \/ file' # file)
        => \E p \in Procs :
              /\ range_size[p] # 0
              /\ pc[p] \in {"new_dir", "with_lock", "commit", "ret"}
              /\ pc'[p] # pc[p]

\* C5: port_alloc(0) is rejected without side effects (state and step part)
C5_ZeroSizeRejected == [](C5_ZeroState) /\ [][C5_ZeroStep]_vars

\* port_alloc(0) has returned while nothing has been created or written
C5_Witness ==
    \E p \in Procs :
        /\ pc[p] = "done"
        /\ range_size[p] = 0
        /\ result[p] = ErrResult("invalid_argument")
        /\ ~dir_exists
        /\ file.kind # "ok"

\* the ports of [start, end) held by software outside the scheme
BusyIn(start, end) == {port \in in_use : start <= port /\ port < end}

\* C6: a successful call returns the base of its final iteration, and in
\* that iteration, holding the lock, it found no conflict in the table for
\* [base, base + range_size) and bound every port of that range; a base
\* with a failed bind or a conflict in the iteration is never returned.
C6_ReturnState ==
    \A p \in Procs :
        /\ pc[p] = "commit"
              => lock = p /\ checked[p] = {base_port[p]} /\ probed[p] = {base_port[p]}
        /\ (pc[p] = "ret" /\ result[p].kind = "ok")
              => /\ lock = p
                 /\ result[p].port = base_port[p]
                 /\ checked[p] = {result[p].port}
                 /\ probed[p] = {result[p].port}

C6_IterationStep ==
    \A p \in Procs :
        /\ (checked'[p] # {} /\ checked'[p] # checked[p])
              => \E b \in checked'[p] :
                    /\ b = base_port'[p]
                    /\ Conflicts(data'[p], b, Add16(b, range_size[p]), now) = {}
        /\ (probed'[p] # {} /\ probed'[p] # probed[p])
              => \E b \in probed'[p] :
                    /\ checked[p] = {b}
                    /\ BusyIn(b, Add16(b, range_size[p])) = {}
        /\ (pc'[p] = "ret" /\ pc[p] # "ret" /\ result'[p].kind = "ok")
              => pc[p] = "commit" /\ result'[p].port = base_port[p]

\* C6: the returned range was checked and bound in the final iteration
\* (state and step part)
C6_ReturnedRangeVerified == [](C6_ReturnState) /\ [][C6_IterationStep]_vars

\* a call returns a base after an earlier iteration of it failed a bind
C6_Witness ==
    \E p \in Procs :
        /\ pc[p] = "ret"
        /\ result[p].kind = "ok"
        /\ bind_failed[p]
        /\ Persisted.entries # {}

\* the step in which caller p stores its table and yields its base
Commits(p) == pc[p] = "commit" /\ pc'[p] = "ret" /\ result'[p].kind = "ok"

\* C7 (as claimed): an expired entry is reusable only after a wraparound
\* reclaim at a time >= its expiry has removed it; so a call that has not
\* wrapped around returns no range overlapping an entry, expired or not,
\* that is still in the table it works on (all ranges inside the window).
C7_ReusedOnlyAfterReclaim ==
    [][\A p \in Procs :
          (Commits(p) /\ wraps[p] = 0 /\ RangeEnd(p) - 1 <= HIGH)
              => \A e \in data[p].entries :
                    InWindow(e)
                        => ~Overlaps(e.start, e.end, base_port[p], RangeEnd(p))]_vars

\* C7 (amended): an expired entry stays in the persisted table until the
\* wraparound reclaim of some call, at a time >= its expiry, removes it;
\* but its range is reusable as soon as the expiry has passed, because the
\* conflict check looks at unexpired entries only: a returned range overlaps
\* no unexpired entry of the table, and may overlap an expired one.
C7_LeavesOnlyByReclaim ==
    \A e \in Persisted.entries \ Persisted'.entries :
        /\ e.expires <= now
        /\ \E p \in Procs : Commits(p) /\ wraps[p] > 0

C7_ReturnAvoidsUnexpired ==
    \A p \in Procs :
        Commits(p) =>
            \A e \in data[p].entries :
                Overlaps(e.start, e.end, base_port[p], RangeEnd(p))
                    => e.expires <= now

\* C7 (amended): entries leave the table only by a wraparound reclaim after
\* their expiry, and a returned range overlaps expired entries at most
C7_ExpiryFreesRange ==
    [][C7_LeavesOnlyByReclaim /\ C7_ReturnAvoidsUnexpired]_vars

\* a call that never wrapped around has returned a range overlapping an
\* expired entry that is still in the table
C7_Witness ==
    \E p \in Procs :
        /\ pc[p] = "ret"
        /\ result[p].kind = "ok"
        /\ wraps[p] = 0
        /\ RangeEnd(p) - 1 <= HIGH
        /\ \E e \in Persisted.entries :
              /\ e.expires <= now
              /\ InWindow(e)
              /\ Overlaps(e.start, e.end, base_port[p], RangeEnd(p))

\* C8: a missing or corrupt state file is loaded as the empty table with
\* cursor LOW, and the first call on such a store whose bind probes all
\* succeed returns LOW.
C8_FreshState ==
    \A p \in Procs :
        (pc[p] \in {"check", "probe", "commit"} /\ file.kind # "ok")
            => /\ data[p].entries = {}
               /\ ~bind_failed[p] => base_port[p] = LOW

C8_FreshStep ==
    \A p \in Procs :
        /\ (pc[p] = "load" /\ pc'[p] = "check" /\ file.kind # "ok")
              => data'[p] = DefaultTable /\ base_port'[p] = LOW
        /\ (Commits(p) /\ file.kind # "ok" /\ ~bind_failed[p])
              => result'[p] = OkResult(LOW)

\* C8: a missing or corrupt store is an empty table and the first call on it
\* returns LOW (state and step part)
C8_FreshStoreStartsAtLow == [](C8_FreshState) /\ [][C8_FreshStep]_vars

\* the first successful call on a missing or corrupt store has returned LOW
C8_Witness ==
    \E p \in Procs :
        /\ pc[p] = "ret"
        /\ result[p] = OkResult(LOW)
        /\ ~bind_failed[p]
        /\ Cardinality(Persisted.entries) = 1

\* C9: a successful port_alloc(k) returning base at time t leaves the
\* persisted table equal to the table it worked on plus the one new entry
\* [base, base + k) with expiry t + 120, and the cursor at base + k; a call
\* that does not wrap around returns a base >= the cursor it loaded.
C9_CommitStep ==
    \A p \in Procs :
        Commits(p) =>
            LET new == [start |-> base_port[p],
                        end |-> base_port[p] + range_size[p],
                        expires |-> now + 120]
            IN /\ result'[p].port = base_port[p]
               /\ file'.kind = "ok"
               /\ file'.table.next = base_port[p] + range_size[p]
               /\ file'.table.entries = data[p].entries \cup {new}
               /\ new \notin data[p].entries
               /\ wraps[p] = 0 => base_port[p] >= Persisted.next

C9_CursorState ==
    \/ Persisted.next = LOW
    \/ \E e \in Persisted.entries : e.end = Persisted.next

\* C9: a commit adds exactly its entry and sets the cursor to its end
\* (state and step part)
C9_CommitAddsOneEntry == [](C9_CursorState) /\ [][C9_CommitStep]_vars

\* a second call, without wrapping around, has returned a base at or above
\* the end of the range the first call stored
C9_Witness ==
    \E p \in Procs :
        /\ pc[p] = "ret"
        /\ result[p].kind = "ok"
        /\ wraps[p] = 0
        /\ Cardinality(Persisted.entries) = 2
        /\ \E e \in Persisted.entries : e.end = result[p].port

\* the bases that can start a free range of p's size: a free range can be
\* moved down until its base is LOW or the port below its base is taken
CandidateBases(p) ==
    {LOW} \cup {e.end : e \in data[p].entries} \cup {port + 1 : port \in in_use}

\* base b gives p a range inside the window that overlaps no unexpired
\* entry and holds no unbindable port
Fits(p, b) ==
    /\ LOW <= b
    /\ b + range_size[p] - 1 <= HIGH
    /\ Conflicts(data[p], b, b + range_size[p], now) = {}
    /\ BusyIn(b, b + range_size[p]) = {}

WindowExhausted(p) == \A b \in CandidateBases(p) : ~Fits(p, b)

\* C10: while no range of range_size ports inside [LOW, HIGH] is free of
\* unexpired entries and of unbindable ports, port_alloc does not return:
\* its bind probe does not succeed, so it goes back to scanning and neither
\* stores nor returns.
C10_NoReturnWhenExhausted ==
    [][\A p \in Procs :
          (pc[p] = "probe" /\ WindowExhausted(p))
              => pc'[p] \in {"probe", "check"}]_vars

\* ------------------------------------------------------------------ C11
ErrorKinds == {"config_error", "io_error"}

\* an error result belongs to a call that has left the scan; a call that is
\* still before or inside the scan has returned nothing
C11_ErrorState ==
    \A p \in Procs :
        /\ result[p].kind \in ErrorKinds => pc[p] \in {"ret", "done"}
        /\ result[p].kind \in ErrorKinds \cup {"invalid_argument"} =>
               DOMAIN result[p] = {"kind"}
        /\ pc[p] \in {"new_dir", "with_lock", "load", "check", "probe", "commit"}
               => result[p] = NoResult

\* errors arise only from DataDir::new, with_lock, load_data and store_data,
\* and end the call; a conflict or a failed bind only moves the scan on
C11_ErrorStep ==
    \A p \in Procs :
        /\ (result[p] = NoResult /\ result'[p].kind \in ErrorKinds) =>
               /\ pc[p] \in {"new_dir", "with_lock", "load", "commit"}
               /\ pc'[p] \in {"ret", "done"}
        /\ (pc[p] = "ret" /\ result[p].kind \in ErrorKinds) =>
               /\ pc'[p] \in {"ret", "done"}
               /\ result'[p] = result[p]
        /\ pc[p] \in {"check", "probe"} =>
               /\ pc'[p] \in {"check", "probe", "commit"}
               /\ result'[p] = NoResult

\* C11: a failure of the directory creation, of the lock acquisition, of the
\* load or of the store ends the call with an error and without a port, and
\* no scan iteration follows it; a failed bind probe or a table conflict
\* never makes the call return an error.
C11_FatalErrorsOnly == [](C11_ErrorState) /\ [][C11_ErrorStep]_vars

\* a call that met a failed bind, went on scanning, and then failed to store
C11_Witness ==
    \E p \in Procs :
        /\ pc[p] = "ret"
        /\ bind_failed[p]
        /\ result[p] = ErrResult("io_error")

\* ------------------------------------------------------------------ C12
\* the entry a commit of p adds now
NewEntry(p) == Entry(base_port[p], RangeEnd(p), now + ALLOCATION_TIME_SECS)

\* the load happens under the lock; a successful call has stored its table
C12_OnceState ==
    \A p \in Procs :
        /\ pc[p] = "load" => lock = p
        /\ (pc[p] = "ret" /\ result[p].kind = "ok") =>
               /\ lock = p
               /\ file = StoredFile(data[p])

C12_OnceStep ==
    /\ file' # file =>
          \E p \in Procs :
              /\ pc[p] = "commit" /\ pc'[p] = "ret"
              /\ lock = p /\ lock' = p
              /\ result'[p].kind = "ok"
    /\ \A p \in Procs :
          \* one load, at the start of the body
          /\ pc[p] \in {"check", "probe", "commit", "ret"} => pc'[p] # "load"
          /\ (pc[p] = "load" /\ pc'[p] = "check") => data'[p] = Persisted
          \* entries are added by the commit only, one entry
          /\ ~(data'[p].entries \subseteq data[p].entries) =>
                 \/ pc[p] = "load"
                 \/ /\ pc[p] = "commit"
                    /\ data'[p].entries = data[p].entries \cup {NewEntry(p)}
          \* the commit is passed once, and stores what it has inserted
          /\ pc[p] = "commit" => pc'[p] \in {"commit", "ret"}
          /\ pc[p] = "ret" => pc'[p] \in {"ret", "done"}
          /\ (pc[p] = "commit" /\ pc'[p] = "ret") =>
                 IF result'[p].kind = "ok"
                 THEN /\ file' = StoredFile(data'[p])
                      /\ NewEntry(p) \in file'.table.entries
                 ELSE file' = file
          \* a call that does not commit leaves the file alone
          /\ (pc[p] # "commit" /\ lock = p) => file' = file

\* C12: a call that takes the lock loads the table once, after taking it;
\* it inserts at most one entry and stores at most once, after the insert
\* and before the lock is released and the base returned; a successful call
\* stores exactly once, a call that does not commit stores nothing.
C12_LoadInsertStoreOnce == [](C12_OnceState) /\ [][C12_OnceStep]_vars

\* a successful call that went through several iterations before its store
C12_Witness ==
    \E p \in Procs :
        /\ pc[p] = "ret"
        /\ result[p].kind = "ok"
        /\ bind_failed[p]
        /\ wraps[p] > 0
        /\ file = StoredFile(data[p])

\* ------------------------------------------------------------------ C13
\* a step of p's own at the head of the loop
HeadStep(p) ==
    /\ pc[p] = "check"
    /\ (pc'[p] # pc[p] \/ base_port'[p] # base_port[p] \/ wraps'[p] # wraps[p])

\* entry e is unexpired and shares a port with [b, b + n)
SharesPort(e, b, n) ==
    LET lo == IF e.start > b THEN e.start ELSE b
        hi == IF e.end < b + n THEN e.end ELSE b + n
    IN now < e.expires /\ lo < hi

\* C13: contains(range) is None exactly when no unexpired entry of the table
\* overlaps the range; otherwise it is Some(hint), the hint being the end of
\* an overlapping entry and greater than range.start, so that the next
\* candidate base skips the whole conflicting block.
C13_ContainsReportsOverlap ==
    [][\A p \in Procs :
          HeadStep(p) =>
              LET b == ScanBase(p)
                  over == {e \in data'[p].entries : SharesPort(e, b, range_size[p])}
              IN /\ pc'[p] = "probe" <=> over = {}
                 /\ pc'[p] = "check" <=>
                        \E e \in over : base_port'[p] = e.end /\ e.end > b]_vars

\* a scan restarted at LOW that was sent to the end of an unexpired entry
C13_Witness ==
    \E p \in Procs :
        /\ pc[p] = "check"
        /\ wraps[p] > 0
        /\ ~bind_failed[p]
        /\ \E e \in data[p].entries : now < e.expires /\ base_port[p] = e.end

\* ------------------------------------------------------------------ C14
\* the head of the loop reclaims exactly when the base is above HIGH
C14_WrapStep ==
    \A p \in Procs :
        /\ HeadStep(p) =>
              IF HIGH < base_port[p]
              THEN /\ data'[p].next = LOW
                   /\ data'[p].entries =
                          data[p].entries \ {e \in data[p].entries : e.expires <= now}
                   /\ checked'[p] \subseteq {LOW}
                   /\ pc'[p] = "probe" => base_port'[p] = LOW
                   /\ pc'[p] = "check" =>
                          \E e \in data'[p].entries :
                              /\ SharesPort(e, LOW, range_size[p])
                              /\ base_port'[p] = e.end
              ELSE data'[p] = data[p]
        \* no other step of the call takes an entry out of its table
        /\ (pc[p] \in {"check", "probe", "commit"}
              /\ ~(data[p].entries \subseteq data'[p].entries))
             => (pc[p] = "check" /\ HIGH < base_port[p])

\* an unexpired persisted entry stays persisted
C14_KeepsUnexpired ==
    \A e \in Persisted.entries :
        now < e.expires => e \in load_data(file', now).entries

\* C14: reclaim(now) removes exactly the entries whose expiry is <= now,
\* leaves the others unchanged and resets the cursor to LOW; it is done in
\* the wraparound step only, after which the scan restarts at LOW; an
\* unexpired reservation is never dropped.
C14_ReclaimOnWraparound == [][C14_WrapStep /\ C14_KeepsUnexpired]_vars

\* a wraparound that dropped an expired entry and kept an unexpired one
C14_Witness ==
    \E p \in Procs :
        /\ pc[p] \in {"check", "probe"}
        /\ wraps[p] > 0
        /\ \E e \in Persisted.entries : e \notin data[p].entries
        /\ \E e \in data[p].entries : now < e.expires

\* ------------------------------------------------------------------ C15
\* C15: the persisted cursor is never below LOW, and a base above HIGH is
\* replaced by LOW, after a reclaim, before any conflict check or bind
\* probe: no range that starts above HIGH is checked, probed or reserved.
C15_BaseInsideWindow ==
    /\ LOW <= Persisted.next
    /\ \A e \in Persisted.entries : LOW <= e.start /\ e.start <= HIGH
    /\ \A p \in Procs :
          /\ LOW <= base_port[p]
          /\ LOW <= data[p].next
          /\ \A b \in checked[p] \cup probed[p] : LOW <= b /\ b <= HIGH
          /\ pc[p] \in {"probe", "commit"} =>
                 /\ base_port[p] <= HIGH
                 /\ checked[p] = {base_port[p]}
          /\ \A e \in data[p].entries : LOW <= e.start /\ e.start <= HIGH
          /\ (pc[p] \in {"check", "probe", "commit"} /\ wraps[p] > 0) =>
                 data[p].next = LOW

\* a call whose base had gone above HIGH and that probes a range again
C15_Witness ==
    \E p \in Procs :
        /\ pc[p] = "probe"
        /\ wraps[p] > 0
        /\ bind_failed[p]
        /\ base_port[p] = LOW

\* ------------------------------------------------------------------ C16
\* C16: a probe listener is released at once: at most one listener is open
\* at any moment, it is closed before the next port is probed, and none is
\* open when the call commits, returns or retries.
C16_ListenersReleased ==
    /\ Cardinality(UNION {listeners[p] : p \in Procs}) <= 1
    /\ \A p \in Procs :
          /\ pc[p] # "bound" => listeners[p] = {}
          /\ pc[p] = "bound" =>
                 /\ listeners[p] = {probe_port[p]}
                 /\ probe_port[p] \notin in_use
                 /\ base_port[p] <= probe_port[p]
                 /\ probe_port[p] < RangeEnd(p)

\* a bind loop that has bound and dropped a port and goes on to the next
\* one, while another port of its range is held by somebody else
C16_Witness ==
    \E p \in Procs :
        /\ pc[p] = "probing"
        /\ base_port[p] < probe_port[p]
        /\ listeners[p] = {}
        /\ Unbindable(p) # {}

\* ------------------------------------------------------------------ C17
\* every way back to the head of the loop moves the base up
C17_ProgressStep ==
    \A p \in Procs :
        \* after a failed bind of port q the new base is q + 1
        /\ (pc[p] = "probe" /\ pc'[p] = "check") =>
               /\ base_port'[p] > base_port[p]
               /\ base_port'[p] - 1 \in in_use
               /\ base_port'[p] - 1 < RangeEnd(p)
        \* after a conflict the new base is a hint above the base checked
        /\ (HeadStep(p) /\ pc'[p] = "check") => base_port'[p] > ScanBase(p)
        \* the base goes down in the wraparound only
        /\ (pc[p] \in {"check", "probe"} /\ base_port'[p] < base_port[p]) =>
               (pc[p] = "check" /\ HIGH < base_port[p])

\* the bases an iteration works on lie in [LOW, HIGH]
C17_PassState ==
    \A p \in Procs :
        pc[p] = "check" => (LOW <= ScanBase(p) /\ ScanBase(p) <= HIGH)

\* C17: every retry makes progress: the hint of a conflict and the port
\* after a failed bind are above the old base, so the base of the
\* iterations rises strictly until the call commits or wraps to LOW; the
\* bases of one pass being distinct values of [LOW, HIGH], a pass between
\* two wraparounds has at most HIGH - LOW + 1 iterations.
C17_RetriesMakeProgress == [](C17_PassState) /\ [][C17_ProgressStep]_vars

\* a call back at the head of the loop, just above the port whose bind failed
C17_Witness ==
    \E p \in Procs :
        /\ pc[p] = "check"
        /\ bind_failed[p]
        /\ wraps[p] = 0
        /\ base_port[p] <= HIGH
        /\ base_port[p] - 1 \in in_use

\* ------------------------------------------------------------------ C18
InLoop(p) == pc[p] \in {"check", "probe"}

\* base b in the window gives p a range that overlaps no unexpired entry of
\* its table and holds no unbindable port
FreeAt(p, b) ==
    /\ LOW <= b /\ b <= HIGH
    /\ Conflicts(data[p], b, b + range_size[p], now) = {}
    /\ BusyIn(b, b + range_size[p]) = {}

\* if some base is free, so is the base reached from it by going down to
\* LOW, to the end of an entry or to the port above a held one
FreeExists(p) == \E b \in CandidateBases(p) : FreeAt(p, b)

C18_ScanState ==
    \A p \in Procs :
        /\ (pc[p] \in {"check", "probe", "commit"} /\ FreeExists(p))
              => wraps[p] <= 1
        /\ (pc[p] \in {"check", "probe", "commit"} /\ wraps[p] > 0) =>
               \A b \in CandidateBases(p) : b < base_port[p] => ~FreeAt(p, b)

\* no way back to the head of the loop jumps over a free base, and what is
\* free stays free while the call is in the loop
C18_ScanStep ==
    \A p \in Procs :
        /\ ((HeadStep(p) \/ pc[p] = "probe") /\ pc'[p] = "check") =>
               \A b \in CandidateBases(p) \cup {ScanBase(p)} :
                   (ScanBase(p) <= b /\ b < base_port'[p]) => ~FreeAt(p, b)
        /\ (InLoop(p) /\ InLoop(p)') =>
               \A b \in CandidateBases(p) : FreeAt(p, b) => FreeAt(p, b)'
        /\ (pc[p] = "commit" /\ pc'[p] = "ret") =>
               result'[p] \in {OkResult(base_port[p]), ErrResult("io_error")}

MaxU16 == U16 - 1

\* an entry whose end was computed without wrapping around MaxU16
Unwrapped(e) ==
    /\ e.start < e.end
    /\ e.end <= MaxU16
    /\ e.end - e.start <= HIGH - LOW

\* C19: for range_size in [1, HIGH - LOW] the u16 arithmetic of the loop
\* does not overflow: base_port <= HIGH wherever base_port + range_size is
\* computed, so that sum, the port after a failed bind, the end of every
\* stored range and the cursor are all <= 65535.
C19_NoU16Overflow ==
    /\ Persisted.next <= MaxU16
    /\ \A e \in Persisted.entries : Unwrapped(e)
    /\ \A p \in Procs :
          /\ range_size[p] <= HIGH - LOW
          /\ data[p].next <= MaxU16
          /\ \A e \in data[p].entries : Unwrapped(e)
          /\ pc[p] = "check" =>
                 /\ ScanBase(p) <= HIGH
                 /\ ScanBase(p) + range_size[p] <= MaxU16
          /\ pc[p] \in {"probe", "commit"} =>
                 /\ base_port[p] <= HIGH
                 /\ base_port[p] + range_size[p] <= MaxU16
                 /\ RangeEnd(p) = base_port[p] + range_size[p]
          /\ pc[p] = "probe" =>
                 \A q \in Unbindable(p) :
                     q + 1 <= MaxU16 /\ AfterFailedBind(q) = q + 1

\* the largest range at the highest base: [HIGH, HIGH + (HIGH - LOW))
C19_Witness ==
    \E p \in Procs :
        /\ pc[p] = "commit"
        /\ base_port[p] = HIGH
        /\ range_size[p] = HIGH - LOW
====
